---- MODULE Spec2Model ----
(***************************************************************************)
(* Model of the image proxy of src/index.js: the GET /proxy/image handler  *)
(* (validation, user-agent draw, three-strategy fetch chain, response      *)
(* building, error classification) and the URL validator isValidImageUrl.  *)
(*                                                                         *)
(* JavaScript strings that the code inspects character by character (the   *)
(* url parameter, hostnames, allow-list entries) are sequences of          *)
(* one-character strings.  An optional value (undefined or a value) is a   *)
(* sequence of length 0 or 1.                                              *)
(***************************************************************************)
EXTENDS Integers, Sequences, FiniteSets, TLC

VARIABLES
    pc,         \* per request: where the async handler is suspended
    query,      \* per request: req.query.url, optional
    randomUA,   \* per request: the const randomUA, optional
    lastError,  \* per request: the let lastError, optional
    response,   \* per request: the let response, optional
    caught,     \* per request: the error bound by the outer catch, optional
    res,        \* per request: the outgoing express response object
    calls,      \* per request: the axios calls issued so far, with outcomes
    trace,      \* per request: how often the validator ran / a user-agent was drawn
    arg,        \* validator harness: the input string
    ret         \* validator harness: the result of isValidImageUrl(arg), optional

vars == <<pc, query, randomUA, lastError, response, caught, res, calls, trace, arg, ret>>

(***************************************************************************)
(* Bounds of the model.                                                    *)
(***************************************************************************)
MaxBodyLen == 2     \* upstream bodies are byte sequences of at most this length
MaxLabels == 2      \* generated hostnames have at most this many labels

(***************************************************************************)
(* Characters and strings.                                                 *)
(***************************************************************************)
Range(s) == {s[i] : i \in 1..Len(s)}

LowerLetters == <<"a","b","c","d","e","f","g","h","i","j","k","l","m","n","o","p","q","r","s","t","u","v","w","x","y","z">>
UpperLetters == <<"A","B","C","D","E","F","G","H","I","J","K","L","M","N","O","P","Q","R","S","T","U","V","W","X","Y","Z">>
DigitChars == <<"0","1","2","3","4","5","6","7","8","9">>

AsciiAlpha == Range(LowerLetters) \cup Range(UpperLetters)
AsciiDigit == Range(DigitChars)

\* String.prototype.toLowerCase on ASCII.
toLowerCase(s) ==
    [i \in 1..Len(s) |->
        IF s[i] \in Range(UpperLetters)
        THEN LowerLetters[CHOOSE k \in 1..Len(UpperLetters) : UpperLetters[k] = s[i]]
        ELSE s[i]]

\* String.prototype.startsWith at a position: does sub occur in s at index i (1-based)?
OccursAt(s, sub, i) ==
    /\ i >= 1
    /\ i + Len(sub) - 1 <= Len(s)
    /\ \A k \in 1..Len(sub) : s[i + k - 1] = sub[k]

\* String.prototype.indexOf: scan positions left to right; 0 when there is none.
RECURSIVE indexOfFrom(_, _, _)
indexOfFrom(s, sub, i) ==
    IF i + Len(sub) - 1 > Len(s) THEN 0
    ELSE IF OccursAt(s, sub, i) THEN i
    ELSE indexOfFrom(s, sub, i + 1)

\* String.prototype.includes.
includes(s, sub) == indexOfFrom(s, sub, 1) # 0

\* String.prototype.endsWith.
\* Variant: a suffix counts only at the start of the string or after a dot.
endsWith_labelBoundary(s, sub) ==
    /\ Len(sub) <= Len(s)
    /\ SubSeq(s, Len(s) - Len(sub) + 1, Len(s)) = sub
    /\ \/ Len(sub) = Len(s)
       \/ s[Len(s) - Len(sub)] = "."

endsWith(s, sub) ==
    /\ Len(sub) <= Len(s)
    /\ SubSeq(s, Len(s) - Len(sub) + 1, Len(s)) = sub

\* First index of s holding a character of cs; 0 when there is none.
FirstOf(s, cs) ==
    LET I == {i \in 1..Len(s) : s[i] \in cs}
    IN  IF I = {} THEN 0 ELSE CHOOSE i \in I : \A j \in I : i <= j

\* Last index of s holding a character of cs; 0 when there is none.
LastOf(s, cs) ==
    LET I == {i \in 1..Len(s) : s[i] \in cs}
    IN  IF I = {} THEN 0 ELSE CHOOSE i \in I : \A j \in I : i >= j

\* Decimal value of a string of digits.
RECURSIVE DecimalValue(_)
DecimalValue(s) ==
    IF s = <<>> THEN 0
    ELSE 10 * DecimalValue(SubSeq(s, 1, Len(s) - 1))
         + (CHOOSE k \in 1..10 : DigitChars[k] = s[Len(s)]) - 1

(***************************************************************************)
(* new URL(url) without a base (WHATWG URL parsing), for inputs over       *)
(* letters, digits and the punctuation  . - : / @ ? # = and space:         *)
(* leading and trailing spaces are stripped; a scheme (a letter, then      *)
(* letters, digits, + - .) followed by ":" is required, otherwise the      *)
(* constructor throws; for the special schemes the slashes after the       *)
(* scheme are skipped and the authority runs to the first / ? #; userinfo  *)
(* ends at the last @; the host ends at the first ":" and the port must be *)
(* digits of value at most 65535; an empty host or a space in the host is  *)
(* a failure; the host of a special scheme is lower-cased.  For another    *)
(* scheme the host is kept as written when "//" follows the scheme and is  *)
(* empty otherwise.                                                        *)
(***************************************************************************)
SpecialSchemes ==
    { <<"h","t","t","p">>, <<"h","t","t","p","s">>, <<"f","t","p">>,
      <<"w","s">>, <<"w","s","s">> }

SchemeChars == AsciiAlpha \cup AsciiDigit \cup {"+", "-", "."}

ParseFailure == [ok |-> FALSE, hostname |-> <<>>]

MaxPort == 65535

TrimSpaces(s) ==
    LET I == {i \in 1..Len(s) : s[i] # " "}
    IN  IF I = {} THEN <<>>
        ELSE SubSeq(s, CHOOSE i \in I : \A j \in I : i <= j,
                       CHOOSE i \in I : \A j \in I : i >= j)

RECURSIVE SkipSlashes(_)
SkipSlashes(s) ==
    IF s # <<>> /\ s[1] = "/" THEN SkipSlashes(Tail(s)) ELSE s

\* The authority of the remaining input: up to the first / ? # .
Authority(s) ==
    LET e == FirstOf(s, {"/", "?", "#"})
    IN  IF e = 0 THEN s ELSE SubSeq(s, 1, e - 1)

\* Host and port of an authority; special tells whether the scheme is special.
ParseAuthority(auth, special) ==
    LET at       == LastOf(auth, {"@"})
        hostport == SubSeq(auth, at + 1, Len(auth))
        colon    == FirstOf(hostport, {":"})
        host     == IF colon = 0 THEN hostport ELSE SubSeq(hostport, 1, colon - 1)
        port     == IF colon = 0 THEN <<>> ELSE SubSeq(hostport, colon + 1, Len(hostport))
    IN  IF \/ (host = <<>> /\ (special \/ at # 0 \/ colon # 0))
           \/ " " \in Range(host)
           \/ \E i \in 1..Len(port) : port[i] \notin AsciiDigit
        THEN ParseFailure
        ELSE IF DecimalValue(port) > MaxPort THEN ParseFailure
        ELSE [ok |-> TRUE, hostname |-> IF special THEN toLowerCase(host) ELSE host]

URLParse(input) ==
    LET s     == TrimSpaces(input)
        colon == FirstOf(s, {":"})
    IN  IF \/ colon <= 1
           \/ s[1] \notin AsciiAlpha
           \/ \E i \in 2..(colon - 1) : s[i] \notin SchemeChars
        THEN ParseFailure
        ELSE LET scheme == toLowerCase(SubSeq(s, 1, colon - 1))
                 rest   == SubSeq(s, colon + 1, Len(s))
             IN  IF scheme \in SpecialSchemes
                 THEN ParseAuthority(Authority(SkipSlashes(rest)), TRUE)
                 ELSE IF OccursAt(rest, <<"/", "/">>, 1)
                 THEN ParseAuthority(Authority(SubSeq(rest, 3, Len(rest))), FALSE)
                 ELSE [ok |-> TRUE, hostname |-> <<>>]

(***************************************************************************)
(* isValidImageUrl (src/index.js:175-194).                                 *)
(***************************************************************************)
Dot == <<".">>

L_scontent == <<"s","c","o","n","t","e","n","t">>
L_cdninstagram == <<"c","d","n","i","n","s","t","a","g","r","a","m">>
L_instagram == <<"i","n","s","t","a","g","r","a","m">>
L_com == <<"c","o","m">>
L_threads == <<"t","h","r","e","a","d","s">>
L_net == <<"n","e","t">>
L_fbcdn == <<"f","b","c","d","n">>
L_xx == <<"x","x">>

validDomains ==
    << L_scontent \o Dot \o L_cdninstagram \o Dot \o L_com,
       L_instagram \o Dot \o L_com,
       L_threads \o Dot \o L_net,
       L_fbcdn \o Dot \o L_net,
       L_scontent \o Dot \o L_xx \o Dot \o L_fbcdn \o Dot \o L_net >>

\* The predicate handed to validDomains.some(...).
domainMatches_suffix(hostname, domain) == endsWith(hostname, domain)

domainMatches(hostname, domain) ==
    includes(hostname, domain) \/ endsWith(hostname, domain)

\* Variants of the validator with a plausible slip, used to test the properties below.
isValidImageUrl_catchTrue(url) ==
    LET parsedUrl == URLParse(url)
    IN  IF ~parsedUrl.ok
        THEN [threw |-> FALSE, value |-> TRUE]
        ELSE [threw |-> FALSE,
              value |-> \E k \in 1..Len(validDomains) :
                            domainMatches(parsedUrl.hostname, validDomains[k])]

isValidImageUrl_suffixOnly(url) ==
    LET parsedUrl == URLParse(url)
    IN  IF ~parsedUrl.ok
        THEN [threw |-> FALSE, value |-> FALSE]
        ELSE [threw |-> FALSE,
              value |-> \E k \in 1..Len(validDomains) :
                            endsWith(parsedUrl.hostname, validDomains[k])]

\* The result is the returned boolean, or threw when the call raises: the
\* try/catch of the function turns the TypeError of new URL into false.
isValidImageUrl(url) ==
    LET parsedUrl == URLParse(url)
    IN  IF ~parsedUrl.ok
        THEN [threw |-> FALSE, value |-> FALSE]
        ELSE [threw |-> FALSE,
              value |-> \E k \in 1..Len(validDomains) :
                            domainMatches(parsedUrl.hostname, validDomains[k])]

(***************************************************************************)
(* Input strings for the validator.                                        *)
(***************************************************************************)
L_evilinstagram == <<"e","v","i","l","i","n","s","t","a","g","r","a","m">>
L_attacker == <<"a","t","t","a","c","k","e","r">>
L_INSTAGRAM == <<"I","N","S","T","A","G","R","A","M">>
L_example == <<"e","x","a","m","p","l","e">>
L_evil == <<"e","v","i","l">>

P_https == <<"h","t","t","p","s",":","/","/">>
P_HTTP == <<"H","T","T","P",":","/","/">>
P_httpsNoSlash == <<"h","t","t","p","s",":">>
P_foo == <<"f","o","o",":","/","/">>
P_mailto == <<"m","a","i","l","t","o",":">>
U_user == <<"u","s","e","r","@">>
U_hostlike == <<"i","n","s","t","a","g","r","a","m",".","c","o","m","@">>
T_jpg == <<"/","x",".","j","p","g">>
T_pathDomain == <<"/","i","n","s","t","a","g","r","a","m",".","c","o","m">>
T_queryDomain == <<"?","u","=","t","h","r","e","a","d","s",".","n","e","t">>
T_fragDomain == <<"#","f","b","c","d","n",".","n","e","t">>
Port8080 == <<":","8","0","8","0">>
PortBad == <<":","8","x">>
PortHuge == <<":","9","9","9","9","9">>
NotAUrl == <<"n","o","t"," ","a"," ","u","r","l">>
RelativePath == <<"/","f","o","o",".","j","p","g">>
HostWithSpace == <<"i","n","s","t","a"," ","g","r","a","m",".","c","o","m">>
HostTrailingDot == <<"f","b","c","d","n",".","n","e","t",".">>
HostNearMiss == <<"i","n","s","t","a","g","r","a","m",".","c","o">>
HostCdnSubdomain == <<"s","c","o","n","t","e","n","t","-","i","a","d","3","-","1",".","c","d","n","i","n","s","t","a","g","r","a","m",".","c","o","m">>

HostEvilExample == L_evil \o Dot \o L_example \o Dot \o L_com
HostAttacker == L_instagram \o Dot \o L_com \o Dot \o L_attacker \o Dot \o L_net
HostEvilInstagram == L_evilinstagram \o Dot \o L_com
HostUpperCase == L_INSTAGRAM \o Dot \o L_com

RECURSIVE JoinLabels(_)
JoinLabels(ls) ==
    IF Len(ls) = 1 THEN ls[1] ELSE ls[1] \o Dot \o JoinLabels(Tail(ls))

Labels ==
    { L_scontent, L_cdninstagram, L_instagram, L_com, L_threads, L_net, L_fbcdn,
      L_xx, L_evilinstagram, L_attacker, L_INSTAGRAM }

GeneratedHosts ==
    { JoinLabels(ls) : ls \in UNION { [1..n -> Labels] : n \in 1..MaxLabels } }

ListedHosts ==
    { validDomains[k] : k \in 1..Len(validDomains) }
    \cup { HostEvilExample, HostAttacker, HostEvilInstagram, HostUpperCase,
           HostWithSpace, HostTrailingDot, HostNearMiss, HostCdnSubdomain, <<>> }

Prefixes == { P_https, P_HTTP, P_httpsNoSlash, P_foo, P_mailto, <<>> }
Userinfos == { <<>>, U_user, U_hostlike }
Ports == { <<>>, Port8080, PortBad, PortHuge }
Tails == { <<>>, T_jpg, T_pathDomain, T_queryDomain, T_fragDomain }

ValidatorInputs ==
    { p \o u \o h \o n \o t :
        p \in Prefixes, u \in Userinfos, h \in ListedHosts, n \in Ports, t \in Tails }
    \cup { P_https \o h \o T_jpg : h \in GeneratedHosts }
    \cup { <<" ">> \o P_https \o h \o <<" ">> : h \in ListedHosts }
    \cup { NotAUrl, RelativePath }

(***************************************************************************)
(* Upstream outcomes of one axios call (src/index.js:91-98).  axios        *)
(* resolves with the response on a 2xx status and rejects otherwise.  A    *)
(* rejection carries error.code and, when the upstream answered, the       *)
(* status of error.response; status 0 stands for no error.response.  When  *)
(* the configured timeout (25000 ms) elapses axios aborts the request and  *)
(* rejects with code ECONNABORTED; ETIMEDOUT is the code of a socket-level *)
(* connect timeout reported by the operating system.                       *)
(***************************************************************************)
Bytes == {255, 216}

Bodies == UNION { [1..n -> Bytes] : n \in 0..MaxBodyLen }

\* Values of the upstream content-type header: absent, empty, or a media type.
ContentTypes == { <<>>, <<"">>, <<"image/webp">>, <<"image/png">> }

Resolved(ct, data) ==
    [ok |-> TRUE, code |-> "", status |-> 200, contentType |-> ct, data |-> data]

Rejected(code, status) ==
    [ok |-> FALSE, code |-> code, status |-> status, contentType |-> <<>>, data |-> <<>>]

TimeoutElapsed == Rejected("ECONNABORTED", 0)

Rejections ==
    { Rejected("ENOTFOUND", 0), Rejected("ECONNREFUSED", 0), Rejected("ETIMEDOUT", 0),
      TimeoutElapsed,
      Rejected("ERR_BAD_REQUEST", 403), Rejected("ERR_BAD_REQUEST", 404),
      Rejected("ERR_BAD_RESPONSE", 500) }

Outcomes == { Resolved(ct, d) : ct \in ContentTypes, d \in Bodies } \cup Rejections

\* The error raised when Buffer.from(response.data) cannot allocate the copy.
CopyError == Rejected("ERR_MEMORY_ALLOCATION_FAILED", 0)

(***************************************************************************)
(* The identity material (src/index.js:15-19, 57-64).                      *)
(***************************************************************************)
userAgents ==
    << "Mozilla/5.0 (Windows NT 10.0; Win64; x64) AppleWebKit/537.36 (KHTML, like Gecko) Chrome/120.0.0.0 Safari/537.36",
       "Mozilla/5.0 (Macintosh; Intel Mac OS X 10_15_7) AppleWebKit/537.36 (KHTML, like Gecko) Chrome/120.0.0.0 Safari/537.36",
       "Mozilla/5.0 (X11; Linux x86_64) AppleWebKit/537.36 (KHTML, like Gecko) Chrome/120.0.0.0 Safari/537.36",
       "Mozilla/5.0 (iPhone; CPU iPhone OS 17_0 like Mac OS X) AppleWebKit/605.1.15 (KHTML, like Gecko) Version/17.0 Mobile/15E148 Safari/604.1" >>

\* Math.floor(Math.random() * userAgents.length) ranges over these indices.
RandomIndices == 0..(Len(userAgents) - 1)

\* generateRandomIP: four draws of Math.floor(Math.random() * 256), joined
\* with dots; the dotted string is kept as the sequence of its four octets.
generateRandomIP(draws) == [i \in 1..4 |-> draws[i] % 256]

\* The draws of Math.floor(Math.random() * 256) that the model takes.
OctetDraws == { <<0, 0, 0, 0>>, <<203, 0, 113, 255>> }

(***************************************************************************)
(* The header sets of the three strategies (src/index.js:66-83, 105-109,   *)
(* 124-129), with the fields that differ between them.                     *)
(***************************************************************************)
headers(ua) ==
    [userAgent |-> ua,
     accept |-> "image/avif,image/webp,image/apng,image/svg+xml,image/*,*/*;q=0.8",
     referer |-> "https://www.threads.net/",
     origin |-> <<"https://www.threads.net">>,
     xForwardedFor |-> <<>>]

\* Variant: the user agent is kept in one place for all requests, so a call
\* carries the user agent drawn last by any request.
minimalHeaders_shared(ua) ==
    LET others == {s \in DOMAIN randomUA : randomUA[s] # <<>> /\ randomUA[s][1] # ua}
    IN  [userAgent |-> IF others = {} THEN ua ELSE randomUA[CHOOSE s \in others : TRUE][1],
         accept |-> "image/*,*/*;q=0.8",
         referer |-> "https://www.threads.net/",
         origin |-> <<>>,
         xForwardedFor |-> <<>>]

minimalHeaders(ua) ==
    [userAgent |-> ua,
     accept |-> "image/*,*/*;q=0.8",
     referer |-> "https://www.threads.net/",
     origin |-> <<>>,
     xForwardedFor |-> <<>>]

altHeaders_firstAgent(ua, ip) ==
    [userAgent |-> userAgents[IF ua = userAgents[1] THEN 2 ELSE 1],
     accept |-> "image/*,*/*;q=0.8",
     referer |-> "https://instagram.com/",
     origin |-> <<>>,
     xForwardedFor |-> <<ip>>]

altHeaders(ua, ip) ==
    [userAgent |-> ua,
     accept |-> "image/*,*/*;q=0.8",
     referer |-> "https://instagram.com/",
     origin |-> <<>>,
     xForwardedFor |-> <<ip>>]

\* One axios({method: "GET", url, headers, timeout: 25000, ...}) call in flight.
AxiosCall(strategy, url, hdrs) ==
    [strategy |-> strategy, url |-> url, headers |-> hdrs, timeout |-> 25000,
     outcome |-> <<>>]

\* The last call of the log has settled with outcome o.
Settled(log, o) == [log EXCEPT ![Len(log)].outcome = <<o>>]

(***************************************************************************)
(* The express response object: res.status, res.set, res.json, res.send    *)
(* and setCacheHeaders (src/index.js:27-32).  sent counts the responses    *)
(* written for the request.                                                *)
(***************************************************************************)
FreshResponse ==
    [statusCode |-> 200, cacheControl |-> <<>>, etag |-> <<>>, contentType |-> <<>>,
     body |-> <<>>, sent |-> 0]

JsonBody(message) == [kind |-> "json", error |-> message, bytes |-> <<>>]

BytesBody(bytes) == [kind |-> "bytes", error |-> "", bytes |-> bytes]

status(rs, code) == [rs EXCEPT !.statusCode = code]

\* res.json({error: message}): the content type is set when none was set before.
json(rs, message) ==
    [rs EXCEPT !.body = <<JsonBody(message)>>,
               !.contentType = IF @ = <<>> THEN <<"application/json">> ELSE @,
               !.sent = @ + 1]

\* Buffer.from(response.data): a copy of the bytes.
BufferFrom(data) == [i \in 1..Len(data) |-> data[i] % 256]

send(rs, buffer) == [rs EXCEPT !.body = <<BytesBody(buffer)>>, !.sent = @ + 1]

setContentType(rs, value) == [rs EXCEPT !.contentType = <<value>>]

\* `public, max-age=${maxAge}` is kept as its directive and its number.
setCacheHeaders(rs, maxAge) ==
    [rs EXCEPT !.cacheControl = <<[directive |-> "public", maxAge |-> maxAge]>>,
               !.etag = <<TRUE>>]

(***************************************************************************)
(* The outer catch block (src/index.js:155-171).                           *)
(***************************************************************************)
Classify_passThrough(rs, error) ==
    IF error.code = "ENOTFOUND" \/ error.code = "ECONNREFUSED"
    THEN json(status(rs, 404), "Image not found")
    ELSE IF error.status = 403
    THEN json(status(rs, 403), "Access forbidden")
    ELSE IF error.code = "ETIMEDOUT"
    THEN json(status(rs, 408), "Request timeout")
    ELSE IF error.status # 0
    THEN json(status(rs, error.status), "Failed to fetch image")
    ELSE json(status(rs, 500), "Failed to fetch image")

Classify_leaksDetail(rs, error) ==
    IF error.code = "ENOTFOUND" \/ error.code = "ECONNREFUSED"
    THEN json(status(rs, 404), "Image not found")
    ELSE IF error.status = 403
    THEN json(status(rs, 403), IF error.data = <<>> THEN "Access forbidden" ELSE error.code)
    ELSE IF error.code = "ETIMEDOUT"
    THEN json(status(rs, 408), "Request timeout")
    ELSE json(status(rs, 500), "Failed to fetch image")

Classify_noRefused(rs, error) ==
    IF error.code = "ENOTFOUND"
    THEN json(status(rs, 404), "Image not found")
    ELSE IF error.status = 403
    THEN json(status(rs, 403), "Access forbidden")
    ELSE IF error.code = "ETIMEDOUT"
    THEN json(status(rs, 408), "Request timeout")
    ELSE json(status(rs, 500), "Failed to fetch image")

Classify_noFallback(rs, error) ==
    IF error.code = "ENOTFOUND" \/ error.code = "ECONNREFUSED"
    THEN json(status(rs, 404), "Image not found")
    ELSE IF error.status = 403
    THEN json(status(rs, 403), "Access forbidden")
    ELSE IF error.code = "ETIMEDOUT"
    THEN json(status(rs, 408), "Request timeout")
    ELSE rs

Classify(rs, error) ==
    IF error.code = "ENOTFOUND" \/ error.code = "ECONNREFUSED"
    THEN json(status(rs, 404), "Image not found")
    ELSE IF error.status = 403
    THEN json(status(rs, 403), "Access forbidden")
    ELSE IF error.code = "ETIMEDOUT"
    THEN json(status(rs, 408), "Request timeout")
    ELSE json(status(rs, 500), "Failed to fetch image")

(***************************************************************************)
(* Building the success response (src/index.js:146-154).                   *)
(***************************************************************************)
ContentTypeOf_octet(resp) ==
    IF resp.contentType = <<>> \/ resp.contentType[1] = ""
    THEN "application/octet-stream"
    ELSE resp.contentType[1]

ContentTypeOf_fixed(resp) == "image/jpeg"

\* response.headers["content-type"] || "image/jpeg"
ContentTypeOf(resp) ==
    IF resp.contentType = <<>> \/ resp.contentType[1] = ""
    THEN "image/jpeg"
    ELSE resp.contentType[1]

\* The response object once the headers of the success response are set.
Prepared(rs, resp) == setContentType(setCacheHeaders(rs, 86400), ContentTypeOf(resp))

(***************************************************************************)
(* The requests.  The handler is an async function: it runs without        *)
(* interruption from one await to the next, so one action is the code      *)
(* between two suspension points.                                          *)
(***************************************************************************)
Reqs == {"r1"}

UrlAccepted == P_https \o validDomains[1] \o <<"/","f","o","o",".","j","p","g">>
UrlRejected == P_https \o HostEvilExample \o T_jpg

\* Values of req.query.url: absent, the empty string, or a string.
Queries ==
    { <<>>, << <<>> >>, <<UrlAccepted>>, <<UrlRejected>>,
      <<NotAUrl>>, <<RelativePath>> }

\* !url
isMissing_never(q) == FALSE

isMissing(q) == q = <<>> \/ q[1] = <<>>

\* The string that new URL sees: undefined is converted to "undefined".
urlString(q) ==
    IF q = <<>> THEN <<"u","n","d","e","f","i","n","e","d">> ELSE q[1]

\* The error that new URL raises on an unparsable input.
InvalidUrlError == Rejected("ERR_INVALID_URL", 0)

\* Does the code enter the catch clause of the try around an axios call?
entersCatch_always(o) == TRUE

entersCatch(o) == ~o.ok

\* lastError = error3; throw lastError (src/index.js:140-141).
thrownAfterStrategy3_stale(previous, error3) == previous

thrownAfterStrategy3(previous, error3) == error3

Init ==
    /\ pc = [r \in Reqs |-> "idle"]
    /\ query = [r \in Reqs |-> <<>>]
    /\ randomUA = [r \in Reqs |-> <<>>]
    /\ lastError = [r \in Reqs |-> <<>>]
    /\ response = [r \in Reqs |-> <<>>]
    /\ caught = [r \in Reqs |-> <<>>]
    /\ res = [r \in Reqs |-> FreshResponse]
    /\ calls = [r \in Reqs |-> <<>>]
    /\ trace = [r \in Reqs |-> [validated |-> 0, uaDrawn |-> 0]]
    /\ arg = <<>>
    /\ ret = <<>>

\* src/index.js:43-98: from the arrival of the request to the first await.
Receive(r, q, i) ==
    /\ pc[r] = "idle"
    /\ query' = [query EXCEPT ![r] = q]
    /\ UNCHANGED <<lastError, response, arg, ret>>
    /\ IF isMissing(q)
       THEN /\ res' = [res EXCEPT ![r] = json(status(@, 400), "URL parameter is required")]
            /\ pc' = [pc EXCEPT ![r] = "done"]
            /\ UNCHANGED <<randomUA, caught, calls, trace>>
       ELSE LET valid == isValidImageUrl(urlString(q))
            IN  IF valid.threw
                THEN /\ caught' = [caught EXCEPT ![r] = <<InvalidUrlError>>]
                     /\ res' = [res EXCEPT ![r] = Classify(@, InvalidUrlError)]
                     /\ pc' = [pc EXCEPT ![r] = "done"]
                     /\ trace' = [trace EXCEPT ![r].validated = @ + 1]
                     /\ UNCHANGED <<randomUA, calls>>
                ELSE IF ~valid.value
                THEN /\ res' = [res EXCEPT ![r] = json(status(@, 400), "Invalid image URL")]
                     /\ pc' = [pc EXCEPT ![r] = "done"]
                     /\ trace' = [trace EXCEPT ![r].validated = @ + 1]
                     /\ UNCHANGED <<randomUA, caught, calls>>
                ELSE /\ randomUA' = [randomUA EXCEPT ![r] = <<userAgents[i + 1]>>]
                     /\ trace' = [trace EXCEPT ![r].validated = @ + 1, ![r].uaDrawn = @ + 1]
                     /\ calls' = [calls EXCEPT ![r] =
                            <<AxiosCall(1, urlString(q), headers(userAgents[i + 1]))>>]
                     /\ pc' = [pc EXCEPT ![r] = "await1"]
                     /\ UNCHANGED <<caught, res>>

\* src/index.js:146-171: the success response is built and sent; when the
\* copy of the body fails, after the headers were set and before res.send
\* runs, the error is handled by the outer catch.
Deliver(r, o, copyFails) ==
    /\ response' = [response EXCEPT ![r] = <<o>>]
    /\ pc' = [pc EXCEPT ![r] = "done"]
    /\ IF copyFails
       THEN /\ caught' = [caught EXCEPT ![r] = <<CopyError>>]
            /\ res' = [res EXCEPT ![r] = Classify(Prepared(@, o), CopyError)]
       ELSE /\ res' = [res EXCEPT ![r] = send(Prepared(@, o), BufferFrom(o.data))]
            /\ UNCHANGED caught

\* Variant: a failed first call is issued again instead of moving on.
Strategy1Settles_retry(r, o, copyFails) ==
    /\ pc[r] = "await1"
    /\ UNCHANGED <<query, randomUA, trace, arg, ret>>
    /\ IF entersCatch(o)
       THEN /\ lastError' = [lastError EXCEPT ![r] = <<o>>]
            /\ calls' = [calls EXCEPT ![r] =
                   Append(Settled(@, o),
                          AxiosCall(1, urlString(query[r]), headers(randomUA[r][1])))]
            /\ pc' = [pc EXCEPT ![r] = "await2"]
            /\ UNCHANGED <<response, caught, res>>
       ELSE /\ calls' = [calls EXCEPT ![r] = Settled(@, o)]
            /\ Deliver(r, o, copyFails)
            /\ UNCHANGED lastError

\* src/index.js:91-118: the first call settles.
Strategy1Settles(r, o, copyFails) ==
    /\ pc[r] = "await1"
    /\ UNCHANGED <<query, randomUA, trace, arg, ret>>
    /\ IF entersCatch(o)
       THEN /\ lastError' = [lastError EXCEPT ![r] = <<o>>]
            /\ calls' = [calls EXCEPT ![r] =
                   Append(Settled(@, o),
                          AxiosCall(2, urlString(query[r]), minimalHeaders(randomUA[r][1])))]
            /\ pc' = [pc EXCEPT ![r] = "await2"]
            /\ UNCHANGED <<response, caught, res>>
       ELSE /\ calls' = [calls EXCEPT ![r] = Settled(@, o)]
            /\ Deliver(r, o, copyFails)
            /\ UNCHANGED lastError

\* Variant: a failure of the second call is classified and answered at once.
Strategy2Settles_giveUp(r, o, copyFails, draws) ==
    /\ pc[r] = "await2"
    /\ UNCHANGED <<query, randomUA, trace, arg, ret>>
    /\ calls' = [calls EXCEPT ![r] = Settled(@, o)]
    /\ IF entersCatch(o)
       THEN /\ lastError' = [lastError EXCEPT ![r] = <<o>>]
            /\ caught' = [caught EXCEPT ![r] = <<o>>]
            /\ res' = [res EXCEPT ![r] = Classify(@, o)]
            /\ pc' = [pc EXCEPT ![r] = "done"]
            /\ UNCHANGED response
       ELSE /\ Deliver(r, o, copyFails)
            /\ UNCHANGED lastError

\* src/index.js:111-138: the second call settles.
Strategy2Settles(r, o, copyFails, draws) ==
    /\ pc[r] = "await2"
    /\ UNCHANGED <<query, randomUA, trace, arg, ret>>
    /\ IF entersCatch(o)
       THEN /\ lastError' = [lastError EXCEPT ![r] = <<o>>]
            /\ calls' = [calls EXCEPT ![r] =
                   Append(Settled(@, o),
                          AxiosCall(3, urlString(query[r]),
                                    altHeaders(randomUA[r][1], generateRandomIP(draws))))]
            /\ pc' = [pc EXCEPT ![r] = "await3"]
            /\ UNCHANGED <<response, caught, res>>
       ELSE /\ calls' = [calls EXCEPT ![r] = Settled(@, o)]
            /\ Deliver(r, o, copyFails)
            /\ UNCHANGED lastError

\* src/index.js:131-171: the third call settles.
Strategy3Settles(r, o, copyFails) ==
    /\ pc[r] = "await3"
    /\ UNCHANGED <<query, randomUA, trace, arg, ret>>
    /\ calls' = [calls EXCEPT ![r] = Settled(@, o)]
    /\ IF entersCatch(o)
       THEN LET thrown == thrownAfterStrategy3(lastError[r][1], o)
            IN  /\ lastError' = [lastError EXCEPT ![r] = <<o>>]
                /\ caught' = [caught EXCEPT ![r] = <<thrown>>]
                /\ res' = [res EXCEPT ![r] = Classify(@, thrown)]
                /\ pc' = [pc EXCEPT ![r] = "done"]
                /\ UNCHANGED response
       ELSE /\ Deliver(r, o, copyFails)
            /\ UNCHANGED lastError

Next ==
    \E r \in Reqs :
        \/ \E q \in Queries, i \in RandomIndices : Receive(r, q, i)
        \/ \E o \in Outcomes, copyFails \in BOOLEAN : Strategy1Settles(r, o, copyFails)
        \/ \E o \in Outcomes, copyFails \in BOOLEAN, draws \in OctetDraws :
               Strategy2Settles(r, o, copyFails, draws)
        \/ \E o \in Outcomes, copyFails \in BOOLEAN : Strategy3Settles(r, o, copyFails)

Spec == Init /\ [][Next]_vars

\* Every axios call settles (resolves, rejects or times out) and the handler
\* is resumed by the event loop.
Settles(r) ==
    \/ \E o \in Outcomes, copyFails \in BOOLEAN : Strategy1Settles(r, o, copyFails)
    \/ \E o \in Outcomes, copyFails \in BOOLEAN, draws \in OctetDraws :
           Strategy2Settles(r, o, copyFails, draws)
    \/ \E o \in Outcomes, copyFails \in BOOLEAN : Strategy3Settles(r, o, copyFails)

FairSpec == Spec /\ \A r \in Reqs : WF_vars(Settles(r))

(***************************************************************************)
(* Two requests in flight at once: the handler is entered once per request *)
(* and the event loop interleaves the segments between the awaits of the   *)
(* two invocations.                                                        *)
(***************************************************************************)
ConcReqs == {"r1", "r2"}

ConcQueries == { <<>>, <<UrlAccepted>>, <<UrlRejected>> }

ConcIndices == {0, Len(userAgents) - 1}

\* A 403 whose error carries the upstream response body and content type.
ForbiddenWithBody ==
    [Rejected("ERR_BAD_REQUEST", 403) EXCEPT !.contentType = <<"text/html">>,
                                             !.data = <<216>>]

ConcOutcomes ==
    { Resolved(<<"image/webp">>, <<255>>),
      Rejected("ENOTFOUND", 0), Rejected("ETIMEDOUT", 0),
      Rejected("ERR_BAD_REQUEST", 403), ForbiddenWithBody }

ConcDraws == { <<203, 0, 113, 255>> }

ConcInit ==
    /\ pc = [r \in ConcReqs |-> "idle"]
    /\ query = [r \in ConcReqs |-> <<>>]
    /\ randomUA = [r \in ConcReqs |-> <<>>]
    /\ lastError = [r \in ConcReqs |-> <<>>]
    /\ response = [r \in ConcReqs |-> <<>>]
    /\ caught = [r \in ConcReqs |-> <<>>]
    /\ res = [r \in ConcReqs |-> FreshResponse]
    /\ calls = [r \in ConcReqs |-> <<>>]
    /\ trace = [r \in ConcReqs |-> [validated |-> 0, uaDrawn |-> 0]]
    /\ arg = <<>>
    /\ ret = <<>>

ConcNext ==
    \E r \in ConcReqs :
        \/ \E q \in ConcQueries, i \in ConcIndices : Receive(r, q, i)
        \/ \E o \in ConcOutcomes, copyFails \in BOOLEAN : Strategy1Settles(r, o, copyFails)
        \/ \E o \in ConcOutcomes, copyFails \in BOOLEAN, draws \in ConcDraws :
               Strategy2Settles(r, o, copyFails, draws)
        \/ \E o \in ConcOutcomes, copyFails \in BOOLEAN : Strategy3Settles(r, o, copyFails)

ConcSpec == ConcInit /\ [][ConcNext]_vars

(***************************************************************************)
(* The validator on its own: an input string is drawn and the function is  *)
(* applied to it.                                                          *)
(***************************************************************************)
ValidatorInit ==
    /\ pc = [r \in Reqs |-> "idle"]
    /\ query = [r \in Reqs |-> <<>>]
    /\ randomUA = [r \in Reqs |-> <<>>]
    /\ lastError = [r \in Reqs |-> <<>>]
    /\ response = [r \in Reqs |-> <<>>]
    /\ caught = [r \in Reqs |-> <<>>]
    /\ res = [r \in Reqs |-> FreshResponse]
    /\ calls = [r \in Reqs |-> <<>>]
    /\ trace = [r \in Reqs |-> [validated |-> 0, uaDrawn |-> 0]]
    /\ arg \in ValidatorInputs
    /\ ret = <<>>

CallValidator ==
    /\ ret = <<>>
    /\ ret' = <<isValidImageUrl(arg)>>
    /\ UNCHANGED <<pc, query, randomUA, lastError, response, caught, res, calls, trace, arg>>

ValidatorNext == CallValidator

ValidatorSpec == ValidatorInit /\ [][ValidatorNext]_vars

(***************************************************************************)
(* Properties.  The operators below read the state as an observer of the   *)
(* handler does: the request, the log of upstream calls and the response.  *)
(***************************************************************************)
HasSubstring(s, sub) ==
    \E i \in 0..(Len(s) - Len(sub)) : SubSeq(s, i + 1, i + Len(sub)) = sub

HasSuffix(s, sub) == \E k \in 0..Len(s) : s = SubSeq(s, 1, k) \o sub

\* The string parses as an absolute URL whose hostname contains or ends with
\* an allow-list entry.
HostnameAllowed(u) ==
    LET parsed == URLParse(u)
    IN  /\ parsed.ok
        /\ \E k \in 1..Len(validDomains) :
               \/ HasSubstring(parsed.hostname, validDomains[k])
               \/ HasSuffix(parsed.hostname, validDomains[k])

\* The same for the url strings of the requests.
UrlAllowed == [u \in {q[1] : q \in Queries \ {<<>>}} |-> HostnameAllowed(u)]

Answered(r) == pc[r] = "done"

HasUrl(r) == query[r] # <<>> /\ query[r][1] # <<>>

Failed(call) == call.outcome # <<>> /\ ~call.outcome[1].ok

Succeeded(call) == call.outcome # <<>> /\ call.outcome[1].ok

Exhausted(r) == Answered(r) /\ Len(calls[r]) = 3 /\ Failed(calls[r][3])

ErrorResponse(r, code, message) ==
    /\ res[r].statusCode = code
    /\ res[r].body = <<JsonBody(message)>>
    /\ res[r].sent = 1

\* C1: a request whose non-empty url does not parse as an absolute URL, or
\* whose hostname matches no allow-list entry, is answered 400
\* {error: "Invalid image URL"} after one run of the validator and without
\* any upstream call.
C1_InvalidUrlRejected ==
    \A r \in Reqs :
        (pc[r] # "idle" /\ HasUrl(r) /\ ~UrlAllowed[query[r][1]])
            => /\ Answered(r)
               /\ ErrorResponse(r, 400, "Invalid image URL")
               /\ trace[r].validated = 1
               /\ calls[r] = <<>>

C1_Witness ==
    \E r \in Reqs :
        /\ Answered(r)
        /\ query[r] = <<UrlRejected>>
        /\ res[r].statusCode = 400
        /\ calls[r] = <<>>

\* C2: the calls of a request are strategies 1, 2, 3 in this order; a request
\* with an accepted url always attempts strategy 1; strategy 2 is attempted
\* exactly when strategy 1 failed and strategy 3 exactly when strategy 2
\* failed, so the chain stops at the first success.
C2_FixedOrderStopAtFirstSuccess ==
    \A r \in Reqs :
        /\ Len(calls[r]) <= 3
        /\ \A k \in 1..Len(calls[r]) : calls[r][k].strategy = k
        /\ (pc[r] # "idle" /\ HasUrl(r) /\ UrlAllowed[query[r][1]])
               => Len(calls[r]) >= 1
        /\ \A k \in 1..2 :
               (Len(calls[r]) >= k + 1) <=> (Len(calls[r]) >= k /\ Failed(calls[r][k]))

C2_Witness ==
    \E r \in Reqs :
        /\ Answered(r)
        /\ Len(calls[r]) = 2
        /\ Failed(calls[r][1])
        /\ Succeeded(calls[r][2])

\* C3: when all three strategies failed, the status and the body of the
\* response are those that the classification gives for the error of
\* strategy 3, whatever the errors of strategies 1 and 2 were.
C3_LastErrorSurfaced ==
    \A r \in Reqs :
        Exhausted(r)
            => LET expected == Classify(FreshResponse, calls[r][3].outcome[1])
               IN  /\ res[r].statusCode = expected.statusCode
                   /\ res[r].body = expected.body
                   /\ res[r].sent = 1

C3_Witness ==
    \E r \in Reqs :
        /\ Exhausted(r)
        /\ calls[r][1].outcome[1].status = 403
        /\ calls[r][2].outcome[1].status = 403
        /\ calls[r][3].outcome[1].code = "ECONNREFUSED"
        /\ res[r].statusCode = 404

\* The upstream response declares a content type: the header is present and
\* not empty.
Declares(o) == o.contentType # <<>> /\ o.contentType[1] # ""

\* The request was answered from the success path: a call succeeded and no
\* error was raised while its response was built.
Delivered(r) ==
    /\ Answered(r)
    /\ calls[r] # <<>>
    /\ Succeeded(calls[r][Len(calls[r])])
    /\ caught[r] = <<>>

IsNotFound(e) == e.code \in {"ENOTFOUND", "ECONNREFUSED"}

IsForbidden(e) == e.status = 403

\* A timeout: of the socket (ETIMEDOUT) or of the call itself (ECONNABORTED).
IsTimeout(e) == e.code \in {"ETIMEDOUT", "ECONNABORTED"}

\* C5: on chain exhaustion the terminal error gets exactly one response: 404
\* {error: "Image not found"} for a DNS failure or a refused connection, 403
\* {error: "Access forbidden"} for an upstream 403, 500 for anything else that
\* is not a timeout; the categories exclude each other.
C5_ClassificationTotal ==
    \A r \in Reqs :
        Exhausted(r)
            => LET e == calls[r][3].outcome[1]
               IN  /\ res[r].sent = 1
                   /\ res[r].statusCode \in {404, 403, 408, 500}
                   /\ IsNotFound(e) => ErrorResponse(r, 404, "Image not found")
                   /\ IsForbidden(e) => ErrorResponse(r, 403, "Access forbidden")
                   /\ (~IsNotFound(e) /\ ~IsForbidden(e) /\ ~IsTimeout(e))
                          => res[r].statusCode = 500
                   /\ Cardinality({c \in {"NotFound", "Forbidden", "Timeout"} :
                          \/ c = "NotFound" /\ IsNotFound(e)
                          \/ c = "Forbidden" /\ IsForbidden(e)
                          \/ c = "Timeout" /\ IsTimeout(e)}) <= 1

C5_Witness ==
    \E r \in Reqs :
        /\ Exhausted(r)
        /\ calls[r][3].outcome[1].code = "ECONNREFUSED"
        /\ ErrorResponse(r, 404, "Image not found")

\* C6: when strategy 3 fails because the 25 second timeout configured on its
\* call elapsed, the response has status 408.
C6_FinalTimeoutGives408 ==
    \A r \in Reqs :
        (Exhausted(r) /\ calls[r][3].timeout = 25000
                      /\ calls[r][3].outcome = <<TimeoutElapsed>>)
            => res[r].statusCode = 408

\* C7: no request gets two responses, and every request that was received is
\* eventually answered with exactly one response, given that every upstream
\* call settles; an error raised while the success response is built ends in
\* a response too.
C7_ExactlyOneResponse ==
    \A r \in Reqs :
        /\ [](res[r].sent <= 1)
        /\ (pc[r] # "idle") ~> (Answered(r) /\ res[r].sent = 1)
        /\ [](caught[r] = <<CopyError>> => (Answered(r) /\ ErrorResponse(r, 500, "Failed to fetch image")))

C7_Witness ==
    \E r \in Reqs :
        /\ Answered(r)
        /\ calls[r] # <<>>
        /\ Succeeded(calls[r][Len(calls[r])])
        /\ caught[r] = <<CopyError>>
        /\ res[r].statusCode = 500
        /\ res[r].sent = 1

\* C8: a request without the url parameter is answered 400
\* {error: "URL parameter is required"}; the validator is not run, no
\* user-agent is drawn and no upstream call is made.
C8_MissingUrl ==
    \A r \in Reqs :
        (pc[r] # "idle" /\ query[r] = <<>>)
            => /\ Answered(r)
               /\ ErrorResponse(r, 400, "URL parameter is required")
               /\ trace[r].validated = 0
               /\ trace[r].uaDrawn = 0
               /\ randomUA[r] = <<>>
               /\ calls[r] = <<>>

C8_Witness ==
    \E r \in Reqs :
        /\ Answered(r)
        /\ query[r] = <<>>
        /\ res[r].statusCode = 400
        /\ res[r].sent = 1

\* C9: a request with an accepted url draws exactly one user-agent, and every
\* call made for the request carries that user-agent.
C9_OneUserAgent ==
    \A r \in Reqs :
        /\ (pc[r] # "idle" /\ HasUrl(r) /\ UrlAllowed[query[r][1]])
               => /\ trace[r].uaDrawn = 1
                  /\ randomUA[r] # <<>>
        /\ \A k \in 1..Len(calls[r]) :
               /\ calls[r][k].headers.userAgent = randomUA[r][1]
               /\ calls[r][k].headers.userAgent = calls[r][1].headers.userAgent

C9_Witness ==
    \E r \in Reqs :
        /\ Len(calls[r]) = 3
        /\ randomUA[r] = <<userAgents[3]>>
        /\ \A k \in 1..3 : calls[r][k].headers.userAgent = userAgents[3]

\* C10: for every input string the validator returns, without raising, true
\* exactly when the string parses as an absolute URL whose hostname contains
\* or ends with one of the five allow-list entries.
C10_ValidatorTotal ==
    ret # <<>>
        => /\ ~ret[1].threw
           /\ ret[1].value = HostnameAllowed(arg)

C10_Witness ==
    /\ ret # <<>>
    /\ ~URLParse(arg).ok
    /\ ~ret[1].threw
    /\ ret[1].value = FALSE

\* A call of the request obtained a successful upstream response.
Fetched(r) ==
    /\ Answered(r)
    /\ calls[r] # <<>>
    /\ Succeeded(calls[r][Len(calls[r])])

\* C13: once a successful upstream response was obtained, the Content-Type
\* of the outward response is image/jpeg when the upstream response declares
\* no content type, and the declared value, unchanged, when it declares one.
C13_ContentTypeDefault ==
    \A r \in Reqs :
        Fetched(r)
            => LET o == calls[r][Len(calls[r])].outcome[1]
               IN  /\ ~Declares(o) => res[r].contentType = <<"image/jpeg">>
                   /\ Declares(o) => res[r].contentType = o.contentType

C13_Witness ==
    \E r \in Reqs :
        /\ Delivered(r)
        /\ calls[r][Len(calls[r])].outcome[1].contentType = <<>>
        /\ res[r].contentType = <<"image/jpeg">>
        /\ res[r].statusCode = 200

\* A failure of strategy 1 or 2 has led to the next strategy.
NextStrategyFollows(r) ==
    \A k \in 1..2 :
        (Len(calls[r]) >= k /\ Failed(calls[r][k]))
            => /\ Len(calls[r]) >= k + 1
               /\ calls[r][k + 1].strategy = k + 1

\* C14 as stated: a failure of strategy 1 or 2 leads to the next strategy,
\* and a request that made a call ends in a failure response only when
\* strategy 3 was attempted and failed.
C14_FailureOnlyAfterStrategy3 ==
    \A r \in Reqs :
        /\ NextStrategyFollows(r)
        /\ (Answered(r) /\ calls[r] # <<>> /\ res[r].statusCode # 200)
               => Exhausted(r)

\* C14: a failure of strategy 1 or 2 does not end the request and is not
\* surfaced: the next strategy is attempted, and an upstream failure is
\* answered only when strategy 3 was attempted and failed, with the error of
\* strategy 3. The only other failure response of a request that made a call
\* is the 500 sent when an error is raised while the success response of
\* the last strategy attempted is built.
C14_EarlyFailuresNotSurfaced ==
    \A r \in Reqs :
        /\ NextStrategyFollows(r)
        /\ (Answered(r) /\ calls[r] # <<>> /\ res[r].statusCode # 200)
               => \/ Exhausted(r) /\ caught[r] = calls[r][3].outcome
                  \/ /\ Fetched(r)
                     /\ caught[r] = <<CopyError>>
                     /\ ErrorResponse(r, 500, "Failed to fetch image")

C14_Witness ==
    \E r \in Reqs :
        /\ Answered(r)
        /\ Len(calls[r]) = 2
        /\ calls[r][1].outcome = <<TimeoutElapsed>>
        /\ Succeeded(calls[r][2])
        /\ caught[r] = <<CopyError>>
        /\ ErrorResponse(r, 500, "Failed to fetch image")

\* C15: per request every strategy is called at most once, at most three
\* calls are made, at most one call is in flight, and a call is issued only
\* when all earlier calls have settled with a failure.
C15_SequentialNoRetry ==
    \A r \in Reqs :
        /\ Len(calls[r]) <= 3
        /\ \A j, k \in 1..Len(calls[r]) :
               j # k => calls[r][j].strategy # calls[r][k].strategy
        /\ Cardinality({k \in 1..Len(calls[r]) : calls[r][k].outcome = <<>>}) <= 1
        /\ \A k \in 1..(Len(calls[r]) - 1) : Failed(calls[r][k])

C15_Witness ==
    \E r \in Reqs :
        /\ pc[r] = "await3"
        /\ Len(calls[r]) = 3
        /\ calls[r][3].outcome = <<>>
        /\ Failed(calls[r][1])
        /\ Failed(calls[r][2])

\* C18: the directive Cache-Control: public, max-age=86400 is only on
\* responses with status 200; no response with another status carries it.
C18_CacheOnlyOnSuccess ==
    \A r \in Reqs :
        (Answered(r) /\ res[r].statusCode # 200) => res[r].cacheControl = <<>>

\* C19: an upstream error status other than 403 on strategy 3 is answered
\* 500 {error: "Failed to fetch image"}, never with the upstream status, and
\* a 404 is answered only for a DNS failure or a refused connection.
C19_UpstreamStatusNotForwarded ==
    \A r \in Reqs :
        /\ (Exhausted(r) /\ calls[r][3].outcome[1].status \notin {0, 403})
               => ErrorResponse(r, 500, "Failed to fetch image")
        /\ (Answered(r) /\ res[r].statusCode = 404)
               => /\ Exhausted(r)
                  /\ calls[r][3].outcome[1].code \in {"ENOTFOUND", "ECONNREFUSED"}
                  /\ calls[r][3].outcome[1].status = 0

C19_Witness ==
    \E r \in Reqs :
        /\ Exhausted(r)
        /\ calls[r][3].outcome[1].status = 404
        /\ ErrorResponse(r, 500, "Failed to fetch image")

\* The hostname of a validated input, or the empty string when the input
\* does not parse.
HostnameOf(u) == LET parsed == URLParse(u) IN IF parsed.ok THEN parsed.hostname ELSE <<>>

SubstringCheck(hostname) ==
    \E k \in 1..Len(validDomains) : includes(hostname, validDomains[k])

SuffixCheck(hostname) ==
    \E k \in 1..Len(validDomains) : endsWith(hostname, validDomains[k])

\* C16 as stated: instagram.com.attacker.net is accepted through the
\* substring check, and the suffix check does not match evilinstagram.com,
\* on which the two checks therefore disagree.
C16_ChecksDisagree ==
    ret # <<>>
        => /\ HostnameOf(arg) = HostAttacker
                  => ret[1].value /\ SubstringCheck(HostAttacker)
           /\ HostnameOf(arg) = HostEvilInstagram
                  => /\ ~SuffixCheck(HostEvilInstagram)
                     /\ SubstringCheck(HostEvilInstagram) # SuffixCheck(HostEvilInstagram)

\* C16: instagram.com.attacker.net is accepted through the substring check
\* alone, no entry being a suffix of it; evilinstagram.com is accepted and is
\* matched by the substring check and by the suffix check alike, since it
\* ends with the characters of instagram.com.
C16_ChecksOnHostileHosts ==
    ret # <<>>
        => /\ HostnameOf(arg) = HostAttacker
                  => /\ ret[1].value
                     /\ SubstringCheck(HostAttacker)
                     /\ ~SuffixCheck(HostAttacker)
           /\ HostnameOf(arg) = HostEvilInstagram
                  => /\ ret[1].value
                     /\ SubstringCheck(HostEvilInstagram)
                     /\ SuffixCheck(HostEvilInstagram)
                     /\ endsWith(HostEvilInstagram, validDomains[2])

C16_Witness ==
    /\ ret # <<>>
    /\ HostnameOf(arg) = HostEvilInstagram
    /\ ret[1].value
    /\ SuffixCheck(HostEvilInstagram)

\* The entries instagram.com, threads.net and fbcdn.net.
ShortDomains == {validDomains[2], validDomains[3], validDomains[4]}

\* A validator that only looks for one of the three short entries as a
\* substring of the hostname.
SubstringOnlyValidator(u) ==
    LET parsed == URLParse(u)
    IN  /\ parsed.ok
        /\ \E d \in ShortDomains : HasSubstring(parsed.hostname, d)

\* C17: the validator returns what a validator returns that performs only
\* the substring check against instagram.com, threads.net and fbcdn.net.
C17_SubstringOnlyEquivalent ==
    ret # <<>> => ret[1].value = SubstringOnlyValidator(arg)

C17_Witness ==
    /\ ret # <<>>
    /\ ret[1].value
    /\ endsWith(HostnameOf(arg), validDomains[5])
    /\ SubstringOnlyValidator(arg)

\* The status and message pairs of the failure responses.
FailurePayloads ==
    { <<400, "URL parameter is required">>, <<400, "Invalid image URL">>,
      <<404, "Image not found">>, <<403, "Access forbidden">>,
      <<408, "Request timeout">>, <<500, "Failed to fetch image">> }

\* Two errors of the same kind: they agree on the code and the upstream
\* status and may differ in everything else they carry.
SameKind(e1, e2) == e1.code = e2.code /\ e1.status = e2.status

\* C11: the body of every failure response is one of the fixed payloads,
\* and two requests whose terminal errors are of the same kind and differ
\* only in the detail they carry get the same status and the same body.
C11_NoUpstreamDetail ==
    /\ \A r \in ConcReqs :
           (Answered(r) /\ res[r].statusCode # 200)
               => \E p \in FailurePayloads : ErrorResponse(r, p[1], p[2])
    /\ \A r, s \in ConcReqs :
           (/\ Answered(r) /\ Answered(s)
            /\ caught[r] # <<>> /\ caught[s] # <<>>
            /\ SameKind(caught[r][1], caught[s][1]))
               => /\ res[r].statusCode = res[s].statusCode
                  /\ res[r].body = res[s].body

C11_Witness ==
    /\ Exhausted("r1") /\ Exhausted("r2")
    /\ caught["r1"] = <<Rejected("ERR_BAD_REQUEST", 403)>>
    /\ caught["r2"] = <<ForbiddenWithBody>>
    /\ ErrorResponse("r1", 403, "Access forbidden")
    /\ ErrorResponse("r2", 403, "Access forbidden")

\* Everything the handler keeps for one request.
ReqState(r) ==
    <<pc[r], query[r], randomUA[r], lastError[r], response[r], caught[r], res[r],
      calls[r], trace[r]>>

\* What a request has made of its inputs uses nothing of another request:
\* every call carries the request's own url and user agent, and the response
\* and the error it handles are outcomes of its own calls.
OwnInputsOnly(r) ==
    /\ \A k \in 1..Len(calls[r]) :
           /\ calls[r][k].url = query[r][1]
           /\ calls[r][k].headers.userAgent = randomUA[r][1]
    /\ response[r] # <<>> => response[r] = calls[r][Len(calls[r])].outcome
    /\ (caught[r] # <<>> /\ caught[r] # <<CopyError>> /\ calls[r] # <<>>)
           => caught[r] = calls[r][Len(calls[r])].outcome

\* The inputs of two requests are the same: the query, the user agent drawn,
\* the outcomes of the calls so far and whether the copy of the body failed.
SameInputs(r, s) ==
    /\ pc[r] # "idle" /\ pc[s] # "idle"
    /\ query[r] = query[s]
    /\ randomUA[r] = randomUA[s]
    /\ Len(calls[r]) = Len(calls[s])
    /\ \A k \in 1..Len(calls[r]) : calls[r][k].outcome = calls[s][k].outcome
    /\ (caught[r] = <<CopyError>>) <=> (caught[s] = <<CopyError>>)

\* C12: with two requests in flight under any interleaving, a step of the
\* handler for one request leaves everything kept for the other unchanged,
\* a request uses only its own url, user agent and outcomes, and two
\* requests with the same inputs have made the same calls and got the same
\* response.
C12_RequestsIndependent ==
    /\ [][\A r \in ConcReqs :
              ReqState(r)' # ReqState(r)
                  => \A s \in ConcReqs \ {r} : ReqState(s)' = ReqState(s)]_vars
    /\ [](\A r \in ConcReqs : OwnInputsOnly(r))
    /\ [](\A r, s \in ConcReqs : SameInputs(r, s) => ReqState(r) = ReqState(s))

C12_Witness ==
    /\ pc["r1"] = "await3"
    /\ pc["r2"] = "await2"
    /\ randomUA["r1"] # randomUA["r2"]
    /\ calls["r1"][3].headers.userAgent = randomUA["r1"][1]
    /\ calls["r2"][2].headers.userAgent = randomUA["r2"][1]

====
